---- MODULE Spec2Model ----
(***************************************************************************)
(* A model of FLOSS's stack-string recovery (floss/stackstrings.py) and of *)
(* its function-feature scoring (floss/features/features.py).              *)
(*                                                                         *)
(* The emulator, the disassembler and the string scanner are external: the *)
(* values they hand to the code (the executed instruction, the stack       *)
(* counter, the scanner's (text, offset) pairs) are inputs drawn from      *)
(* small sets.                                                             *)
(***************************************************************************)
EXTENDS Integers, Sequences, FiniteSets, TLC

VARIABLES
    vw,                 \* the workspace: architecture, stack depths its code reaches
    bb_ends,            \* index of VAs of the last instruction of all basic blocks
    selected_functions, \* the candidate function VAs, in input order
    budget,             \* hook events one runFunction may deliver (maxhit/maxrep)
    fi,                 \* position of the `for fva in selected_functions` loop
    phase,              \* where extract_stackstrings is: emu, ascii, unicode, done,
                        \* raised; filter, filtered and feature for the parts run alone
    init_sp,            \* monitor._init_sp
    emu_sp,             \* emu.getStackCounter()
    ctxs,               \* monitor.ctxs
    mov_count,          \* monitor.mov_count
    steps,              \* hook events delivered in the current run
    movs_seen,          \* history: qualifying moves since the last block end
    reads,              \* history: emu.readMemory calls of the current run
    ev,                 \* history: the last hook event and the state it found
    ci,                 \* position of the `for ctx in ...` loop
    s,                  \* the scanner's current item: its text s.s and s.offset
    nitems,             \* items the scans of the current function have yielded
    seen,               \* the texts already yielded for the current function
    out,                \* history: the StackString records yielded, in order
    sev,                \* history: what the last scanned item led to
    skips,              \* history: captures of the current run the ceiling skipped
    text,               \* a text the scanner can yield
    verdict,            \* what lines 183-187 make of text
    feature,            \* a Feature instance
    scored,             \* what feature.score() returned
    max_calls_to,       \* the class attribute CallsTo.max_calls_to
    lookups,            \* history: calls of floss.identify.get_max_calls_to
    made,               \* history: CallsTo instances constructed
    index,              \* get_basic_block_end_index: the set being built
    fni,                \* position of the `for funcva in vw.getFunctions()` loop
    bbi,                \* position of the `for bb in f.basic_blocks` loop
    caps,               \* history: for each capture of ctxs, the hook that made
                        \* it and the function under emulation
    firsts              \* history: the texts scanned for the current function
                        \* that passed the filter, each with the context and the
                        \* offset it first came up at

monvars  == <<init_sp, emu_sp, ctxs, mov_count, steps, movs_seen, reads, ev, skips,
              caps>>
scanvars == <<ci, s, nitems, seen, out, sev, firsts>>
envvars  == <<vw, bb_ends, selected_functions, budget>>
filtvars == <<text, verdict>>
featvars == <<feature, scored, max_calls_to, lookups, made>>
idxvars  == <<index, fni, bbi>>

vars == <<vw, bb_ends, selected_functions, budget, fi, phase, init_sp, emu_sp,
          ctxs, mov_count, steps, movs_seen, reads, ev, ci, s, nitems, seen, out, sev,
          skips, text, verdict, feature, scored, max_calls_to, lookups, made,
          index, fni, bbi, caps, firsts>>

----------------------------------------------------------------------------
(* Program constants *)

MAX_STACK_SIZE == 65536

MIN_NUMBER_OF_MOVS == 5

(* Bounds of the model *)

\* hook events of one emulation run, when the monitor is checked alone
MonBudget == 6

\* captures one run may accumulate
MaxCtxs == 2

\* hook events of one emulation run, when the whole pipeline is checked
PipeBudget == 2

\* items the scans of one function's buffers yield in all
MaxItems == 3

\* characters of a scanned text, when the filter is checked alone
MaxTextLen == 4

\* the largest raw value of a feature
MaxCount == 32

\* hook events of one emulation run, when several functions are run
RunBudget == 2

\* the largest fan-in of the corpus, and the most call sites of one function
MaxFanIn == 5

\* CallsTo instances constructed in one analysis run
MaxInstances == 2

\* functions of the workspace, when the boundary index is built
MaxFuncs == 2

\* basic blocks of one function
MaxBlocks == 2

\* hook events of one emulation run, when a block of five moves is followed
\* by a call and the captures are scanned
FirstBudget == 6

----------------------------------------------------------------------------
(* Input domains *)

Archs == {"i386", "amd64", "other"}

\* instruction addresses
Addrs == {16, 32}

\* the emulator's initial stack counter
StackBases == {200000}

\* init_sp - sp at a hook; a negative one is a stack counter above init_sp
AllFrames == {-8, 8, MAX_STACK_SIZE, MAX_STACK_SIZE + 1}

\* the scanner's byte offsets within a buffer
Offsets == {0, 4}

\* texts the scanner finds in the frames: "hi", "pVAhi", "AAA", "VAVA"
PipeTexts == { <<"h","i">>, <<"p","V","A","h","i">>, <<"A","A","A">>,
               <<"V","A","V","A">> }

\* texts the scanner finds in the captures of one run: "hi", "VAhi"
FirstTexts == { <<"h","i">>, <<"V","A","h","i">> }

\* texts the scanner finds when several functions are run: "hi", "VAhi", "AAA"
RunTexts == { <<"h","i">>, <<"V","A","h","i">>, <<"A","A","A">> }

\* characters of the scanned texts ("h" stands for any other printable one)
TextAlphabet == {"p", "V", "A", "h"}

\* the instructions the emulator executes: mnemonic and operand list
OpShapes ==
    { [mnem |-> <<"m","o","v">>,         opers |-> <<"i386SibOper", "i386RegOper">>],
      [mnem |-> <<"m","o","v">>,         opers |-> <<"i386RegOper", "i386SibOper">>],
      [mnem |-> <<"m","o","v","s","b">>, opers |-> <<>>],
      [mnem |-> <<"r","e","t">>,         opers |-> <<>>],
      [mnem |-> <<"o","r">>,             opers |-> <<"i386SibOper", "i386ImmOper">>] }

Ops == { [va |-> a, mnem |-> o.mnem, opers |-> o.opers] : a \in Addrs, o \in OpShapes }

\* kind: the hook; va: the instruction's address; atend: endpc was in bb_ends;
\* movs: qualifying moves of the block so far, this instruction included;
\* cs, mc, nreads: ctxs, mov_count and the reads made, before the hook;
\* tried: the hook called extract_context
NoEvent == [kind |-> "none", va |-> 0, atend |-> FALSE, movs |-> 0,
            cs |-> <<>>, mc |-> 0, nreads |-> 0, tried |-> FALSE]

----------------------------------------------------------------------------
(* StackstringContextMonitor *)

\* s[:n]
Prefix(t, n) == SubSeq(t, 1, IF Len(t) < n THEN Len(t) ELSE n)

\* is_stack_mov: None (falsy) for a non-mov
is_stack_mov(op) ==
    IF Prefix(op.mnem, 3) = <<"m","o","v">>
    THEN IF Len(op.opers) = 0
         THEN TRUE
         ELSE op.opers[1] = "i386SibOper"
    ELSE FALSE

\* CallContext with the two stack counters in each other's place
CallContext_Swapped(pc, sp, isp, mem) ==
    [pc |-> pc, sp |-> isp, init_sp |-> sp, stack_memory |-> mem]

CallContext(pc, sp, isp, mem) ==
    [pc |-> pc, sp |-> sp, init_sp |-> isp, stack_memory |-> mem]

\* emu.readMemory(va, size): the bytes read, named by where they were read
readMemory(va, size) == [va |-> va, size |-> size]

\* the guard with >= for >: a frame of exactly the ceiling is skipped
FitsCeiling_Strict(stack_size) == ~(stack_size >= MAX_STACK_SIZE)

\* extract_context's guard: the frame is small enough to capture
FitsCeiling(stack_size) == ~(stack_size > MAX_STACK_SIZE)

\* extract_context: the capture list after the call
extract_context(cs, sp, isp, op) ==
    LET stack_top    == sp
        stack_bottom == isp
        stack_size   == stack_bottom - stack_top
    IN  IF FitsCeiling(stack_size)
        THEN Append(cs, CallContext(op.va, stack_top, stack_bottom,
                                    readMemory(stack_top, stack_size)))
        ELSE cs

\* extract_context: the emu.readMemory calls it makes
extract_reads(sp, isp) == IF FitsCeiling(isp - sp) THEN 1 ELSE 0

\* extract_context: the early returns of line 62 it makes
extract_skips(sp, isp) == IF FitsCeiling(isp - sp) THEN 0 ELSE 1

\* the counter without the test of line 74: it grows past the threshold
CountMov_NoCap(mc, op) ==
    IF is_stack_mov(op) THEN mc + 1 ELSE mc

\* get_context_via_mov_heuristic, lines 74-75: the counter after counting op
CountMov(mc, op) ==
    IF mc < MIN_NUMBER_OF_MOVS /\ is_stack_mov(op) THEN mc + 1 ELSE mc

\* the threshold test off by one: four movs are enough
EnoughMovs_OffByOne(mc) == mc >= MIN_NUMBER_OF_MOVS - 1

\* get_context_via_mov_heuristic, line 77: enough movs in this basic block
EnoughMovs(mc) == mc >= MIN_NUMBER_OF_MOVS

\* a hook can be delivered: the run is on, within the driver's budget
Running == /\ phase = "emu"
           /\ steps < budget
           /\ Len(ctxs) < MaxCtxs

\* the history of the captures, after a hook of this kind left the list cs
Noted(cs, kind) ==
    IF Len(cs) > Len(ctxs)
    THEN Append(caps, [hook |-> kind, fva |-> selected_functions[fi]])
    ELSE caps

\* posthook -> get_context_via_mov_heuristic
posthook(op, endpc, sp) ==
    /\ Running
    /\ emu_sp' = sp
    /\ steps' = steps + 1
    /\ LET mc == CountMov(mov_count, op)
           n  == movs_seen + (IF is_stack_mov(op) THEN 1 ELSE 0)
           e  == [kind |-> "posthook", va |-> op.va, atend |-> endpc \in bb_ends,
                  movs |-> n, cs |-> ctxs, mc |-> mov_count, nreads |-> reads,
                  tried |-> FALSE]
       IN  IF endpc \in bb_ends
           THEN /\ IF EnoughMovs(mc)
                   THEN /\ ctxs' = extract_context(ctxs, sp, init_sp, op)
                        /\ caps' = Noted(ctxs', "posthook")
                        /\ reads' = reads + extract_reads(sp, init_sp)
                        /\ skips' = skips + extract_skips(sp, init_sp)
                        /\ ev' = [e EXCEPT !.tried = TRUE]
                   ELSE /\ UNCHANGED <<ctxs, caps, reads, skips>>
                        /\ ev' = e
                \* reset counter at end of basic block
                /\ mov_count' = 0
                /\ movs_seen' = 0
           ELSE /\ mov_count' = mc
                /\ movs_seen' = n
                /\ ev' = e
                /\ UNCHANGED <<ctxs, caps, reads, skips>>
    /\ UNCHANGED <<fi, phase, init_sp>>
    /\ UNCHANGED envvars
    /\ UNCHANGED <<filtvars, featvars, idxvars>>
    /\ UNCHANGED scanvars

\* apicall -> extract_context
apicall(op, sp) ==
    /\ Running
    /\ emu_sp' = sp
    /\ steps' = steps + 1
    /\ ctxs' = extract_context(ctxs, sp, init_sp, op)
    /\ caps' = Noted(ctxs', "apicall")
    /\ reads' = reads + extract_reads(sp, init_sp)
    /\ skips' = skips + extract_skips(sp, init_sp)
    /\ ev' = [kind |-> "apicall", va |-> op.va, atend |-> FALSE, movs |-> movs_seen,
              cs |-> ctxs, mc |-> mov_count, nreads |-> reads, tried |-> TRUE]
    /\ UNCHANGED <<fi, phase, init_sp, mov_count, movs_seen>>
    /\ UNCHANGED envvars
    /\ UNCHANGED <<filtvars, featvars, idxvars>>
    /\ UNCHANGED scanvars

\* the stack counters the emulated code can reach
StackCounters == { init_sp - d : d \in vw.frames }

\* the driver delivers a hook
Hook ==
    \/ \E op \in Ops, endpc \in Addrs, sp \in StackCounters : posthook(op, endpc, sp)
    \/ \E op \in Ops, sp \in StackCounters : apicall(op, sp)

----------------------------------------------------------------------------
(* extract_stackstrings *)

StackString(fva, str, pc, sp, isp, offset, frame_offset) ==
    [fva |-> fva, s |-> str, pc |-> pc, sp |-> sp, init_sp |-> isp,
     offset |-> offset, frame_offset |-> frame_offset]

NoItem == [s |-> <<>>, offset |-> 0]

NoScan == [kind |-> "none", mode |-> "none"]

NoVerdict == [skip |-> FALSE, s_stripped |-> <<>>]

NoFeature == [name |-> "none", value |-> 0]

NoScore == [num |-> 0, den |-> 0]

\* isinstance(vw.arch, cls): envi's Amd64Module derives from i386Module
IsInstance(arch, cls) ==
    \/ arch = cls
    \/ arch = "amd64" /\ cls = "i386"

\* getPointerSize with the i386 test first: amd64 derives from it and gets 4
getPointerSize_I386First(w) ==
    IF IsInstance(w.arch, "i386") THEN [raised |-> FALSE, value |-> 4]
    ELSE IF IsInstance(w.arch, "amd64") THEN [raised |-> FALSE, value |-> 8]
    ELSE [raised |-> TRUE, value |-> 0]

\* getPointerSize with a default width for an unknown architecture
getPointerSize_Default(w) ==
    IF IsInstance(w.arch, "amd64") THEN [raised |-> FALSE, value |-> 8]
    ELSE [raised |-> FALSE, value |-> 4]

\* getPointerSize: the width returned, or the NotImplementedError raised
getPointerSize(w) ==
    IF IsInstance(w.arch, "amd64") THEN [raised |-> FALSE, value |-> 8]
    ELSE IF IsInstance(w.arch, "i386") THEN [raised |-> FALSE, value |-> 4]
    ELSE [raised |-> TRUE, value |-> 0]

\* the text after an optional leading c
SkipOpt(t, c) == IF Len(t) > 0 /\ t[1] = c THEN Tail(t) ELSE t

\* A+$ : one or more "A" up to the end, or up to a final newline
AllAs(t) ==
    LET u == IF Len(t) > 0 /\ t[Len(t)] = "\n" THEN SubSeq(t, 1, Len(t) - 1) ELSE t
    IN  /\ Len(u) > 0
        /\ \A i \in 1..Len(u) : u[i] = "A"

\* FP_FILTER.match(t), FP_FILTER = ^p?V?A+$
FP_FILTER(t) == AllAs(SkipOpt(SkipOpt(t, "p"), "V"))

\* the substitution with the pattern ^VA: a leading "pVA" stays
FP_FILTER_SUB_NoP(t) ==
    IF Len(t) >= 2 /\ t[1] = "V" /\ t[2] = "A"
    THEN SubSeq(t, 3, Len(t))
    ELSE t

\* re.sub(FP_FILTER_SUB, "", t), FP_FILTER_SUB = ^p?VA
FP_FILTER_SUB(t) ==
    LET u == SkipOpt(t, "p")
    IN  IF Len(u) >= 2 /\ u[1] = "V" /\ u[2] = "A"
        THEN SubSeq(u, 3, Len(u))
        ELSE t

\* lines 183-187 and 193-197: whether the text is skipped, and what is left of it
Survivor(t) == [skip |-> FP_FILTER(t), s_stripped |-> FP_FILTER_SUB(t)]

\* seen.add forgotten: no text is remembered
SeenAdd_Forgot(sn, raw, s_stripped) == sn

\* seen.add(s.s): the text as scanned is remembered, not the stripped one
SeenAdd_Raw(sn, raw, s_stripped) == sn \cup {raw}

\* lines 191 and 201: seen.add(s_stripped)
SeenAdd(sn, raw, s_stripped) == sn \cup {s_stripped}

\* lines 189 and 199
FrameOffset(ctx, offset, pointer_size) ==
    (ctx.init_sp - ctx.sp) - offset - pointer_size

\* the monitor and the emulator of a run that is over hold nothing
MonitorGone ==
    /\ emu_sp' = 0
    /\ mov_count' = 0
    /\ steps' = 0
    /\ movs_seen' = 0
    /\ reads' = 0
    /\ skips' = 0
    /\ ev' = NoEvent

\* StartFunction with seen made once, before the loop of line 177
StartFunction_KeepSeen(i) ==
    /\ fi' = i
    /\ ctxs' = <<>>
    /\ caps' = <<>>
    /\ IF i <= Len(selected_functions)
       THEN /\ phase' = "emu"
            /\ UNCHANGED seen
            /\ firsts' = <<>>
            /\ ci' = 0
            /\ s' = NoItem
            /\ nitems' = 0
            /\ sev' = NoScan
            /\ init_sp' \in StackBases
            /\ emu_sp' = init_sp'
            /\ mov_count' = 0
            /\ steps' = 0
            /\ movs_seen' = 0
            /\ reads' = 0
            /\ skips' = 0
            /\ ev' = NoEvent
       ELSE \* the loop is over: the generator ends, its locals as they were
            /\ phase' = "done"
            /\ init_sp' = 0
            /\ MonitorGone
            /\ UNCHANGED <<seen, ci, s, nitems, sev, firsts>>

\* the loop of line 177 reaches its i-th function: lines 179-180 and 92-96
StartFunction(i) ==
    /\ fi' = i
    /\ ctxs' = <<>>
    /\ caps' = <<>>
    /\ IF i <= Len(selected_functions)
       THEN /\ phase' = "emu"
            /\ seen' = {}
            /\ firsts' = <<>>
            /\ ci' = 0
            /\ s' = NoItem
            /\ nitems' = 0
            /\ sev' = NoScan
            /\ init_sp' \in StackBases
            /\ emu_sp' = init_sp'
            /\ mov_count' = 0
            /\ steps' = 0
            /\ movs_seen' = 0
            /\ reads' = 0
            /\ skips' = 0
            /\ ev' = NoEvent
       ELSE \* the loop is over: the generator ends, its locals as they were
            /\ phase' = "done"
            /\ init_sp' = 0
            /\ MonitorGone
            /\ UNCHANGED <<seen, ci, s, nitems, sev, firsts>>

\* driver.runFunction returns; extract_call_contexts returns monitor.ctxs
Return ==
    /\ phase = "emu"
    /\ IF ctxs = <<>>
       THEN /\ StartFunction(fi + 1)
            /\ UNCHANGED out
       ELSE /\ phase' = "ascii"
            /\ ci' = 1
            /\ nitems' = 0
            /\ MonitorGone
            /\ UNCHANGED <<fi, init_sp, ctxs, caps, s, seen, out, sev, firsts>>
    /\ UNCHANGED envvars
    /\ UNCHANGED <<filtvars, featvars, idxvars>>

\* bytes a text of n characters takes in the buffer
Bytes(mode, n) == IF mode = "unicode" THEN 2 * n ELSE n

\* the items a scan of the buffer can yield
Items(mode, mem) ==
    { it \in [s : vw.texts, offset : Offsets] :
        it.offset + Bytes(mode, Len(it.s)) <= mem.size }

\* the history of first occurrences, after the item it was scanned
FirstsAfter(it) ==
    IF \/ Survivor(it.s).skip
       \/ \E k \in DOMAIN firsts : firsts[k].s = Survivor(it.s).s_stripped
    THEN firsts
    ELSE Append(firsts, [s |-> Survivor(it.s).s_stripped, pc |-> ctxs[ci].pc,
                         sp |-> ctxs[ci].sp, init_sp |-> ctxs[ci].init_sp,
                         offset |-> it.offset])

\* the body of the loops of lines 182 and 192, for the item it
ScanItem(mode, it) ==
    /\ phase = mode
    /\ nitems < MaxItems
    /\ it \in Items(mode, ctxs[ci].stack_memory)
    /\ s' = it
    /\ nitems' = nitems + 1
    /\ firsts' = FirstsAfter(it)
    /\ IF Survivor(it.s).skip
       THEN /\ sev' = [kind |-> "filtered", mode |-> mode]
            /\ UNCHANGED <<phase, seen, out>>
       ELSE LET s_stripped == Survivor(it.s).s_stripped
                ctx == ctxs[ci]
            IN  IF s_stripped \notin seen
                THEN IF getPointerSize(vw).raised
                     THEN /\ phase' = "raised"
                          /\ sev' = [kind |-> "raised", mode |-> mode]
                          /\ UNCHANGED <<seen, out>>
                     ELSE /\ out' = Append(out,
                                     StackString(selected_functions[fi], s_stripped,
                                                 ctx.pc, ctx.sp, ctx.init_sp, it.offset,
                                                 FrameOffset(ctx, it.offset,
                                                             getPointerSize(vw).value)))
                          /\ seen' = SeenAdd(seen, it.s, s_stripped)
                          /\ sev' = [kind |-> "yield", mode |-> mode]
                          /\ UNCHANGED phase
                ELSE /\ sev' = [kind |-> "dup", mode |-> mode]
                     /\ UNCHANGED <<phase, seen, out>>
    /\ UNCHANGED <<fi, ci>>
    /\ UNCHANGED monvars
    /\ UNCHANGED envvars
    /\ UNCHANGED <<filtvars, featvars, idxvars>>

\* strings.extract_ascii_strings yields an item
ScanAscii == \E it \in [s : vw.texts, offset : Offsets] : ScanItem("ascii", it)

\* strings.extract_unicode_strings yields an item
ScanUnicode == \E it \in [s : vw.texts, offset : Offsets] : ScanItem("unicode", it)

\* the ASCII scan is exhausted: the UTF-16 scan of the same buffer starts
EndAscii ==
    /\ phase = "ascii"
    /\ phase' = "unicode"
    /\ s' = NoItem
    /\ sev' = NoScan
    /\ UNCHANGED <<fi, ci, nitems, seen, out, firsts>>
    /\ UNCHANGED monvars
    /\ UNCHANGED envvars
    /\ UNCHANGED <<filtvars, featvars, idxvars>>

\* the UTF-16 scan is exhausted: the next context, or the next function
EndUnicode ==
    /\ phase = "unicode"
    /\ IF ci < Len(ctxs)
       THEN /\ ci' = ci + 1
            /\ phase' = "ascii"
            /\ s' = NoItem
            /\ sev' = NoScan
            /\ UNCHANGED <<fi, nitems, seen, firsts>>
            /\ UNCHANGED monvars
       ELSE StartFunction(fi + 1)
    /\ UNCHANGED out
    /\ UNCHANGED envvars
    /\ UNCHANGED <<filtvars, featvars, idxvars>>

----------------------------------------------------------------------------
(* get_basic_block_end_index *)

\* the skip test with <= 1 for == 0: a block of one instruction is skipped too
IsEmpty_Short(bb) == Len(bb) <= 1

\* len(bb.instructions) == 0
IsEmpty(bb) == Len(bb) = 0

\* bb.instructions[-1].va
LastVa(bb) == bb[Len(bb)]

\* the body of the loop of line 211 for the next basic block; indexing an
\* empty list with [-1] is Python's IndexError
IndexBlock ==
    /\ phase = "index"
    /\ fni <= Len(vw.functions)
    /\ bbi <= Len(vw.functions[fni])
    /\ LET bb == vw.functions[fni][bbi]
       IN  IF IsEmpty(bb)
           THEN UNCHANGED <<index, phase>>
           ELSE IF Len(bb) = 0
                THEN /\ phase' = "indexerror"
                     /\ UNCHANGED index
                ELSE /\ index' = index \cup {LastVa(bb)}
                     /\ UNCHANGED phase
    /\ bbi' = bbi + 1
    /\ UNCHANGED <<fi, fni>>
    /\ UNCHANGED <<monvars, scanvars, envvars, filtvars, featvars>>

\* the loop of line 211 is over: the next function of line 209
NextFunction ==
    /\ phase = "index"
    /\ fni <= Len(vw.functions)
    /\ bbi > Len(vw.functions[fni])
    /\ fni' = fni + 1
    /\ bbi' = 1
    /\ UNCHANGED <<fi, phase, index>>
    /\ UNCHANGED <<monvars, scanvars, envvars, filtvars, featvars>>

\* line 215: return index
ReturnIndex ==
    /\ phase = "index"
    /\ fni > Len(vw.functions)
    /\ phase' = "indexed"
    /\ UNCHANGED <<fi, index, fni, bbi>>
    /\ UNCHANGED <<monvars, scanvars, envvars, filtvars, featvars>>

----------------------------------------------------------------------------
(* The artifact filter on its own *)

\* lines 183-187 for the scanned text
FilterText ==
    /\ phase = "filter"
    /\ verdict' = Survivor(text)
    /\ phase' = "filtered"
    /\ UNCHANGED <<fi, text>>
    /\ UNCHANGED monvars
    /\ UNCHANGED scanvars
    /\ UNCHANGED envvars
    /\ UNCHANGED <<featvars, idxvars>>

----------------------------------------------------------------------------
(* features.py: scores are fractions num/den *)

Frac(n, d) == [num |-> n, den |-> d]

Feature(name, value) == [name |-> name, value |-> value]

\* BlockCount.score with >= 30 for > 30
BlockCount_score_Ge(value) ==
    IF value >= 30 THEN Frac(1, 10)
    ELSE IF 3 <= value /\ value <= 10 THEN Frac(10, 10)
    ELSE Frac(4, 10)

\* BlockCount.score
BlockCount_score(value) ==
    IF value > 30 THEN Frac(1, 10)
    ELSE IF 3 <= value /\ value <= 10 THEN Frac(10, 10)
    ELSE Frac(4, 10)

\* InstructionCount.score
InstructionCount_score(value) ==
    IF value > 10 THEN Frac(8, 10)
    ELSE Frac(1, 10)

\* Arguments.score
Arguments_score(value) ==
    IF 1 <= value /\ value <= 4 THEN Frac(10, 10)
    ELSE IF 5 <= value /\ value <= 6 THEN Frac(5, 10)
    ELSE Frac(0, 10)

\* Python's None, and a number: the values of max_calls_to
None == [isNone |-> TRUE, val |-> 0]

Num(n) == [isNone |-> FALSE, val |-> n]

\* the truth value Python gives v
Truthy(v) == ~v.isNone /\ v.val # 0

\* the lookup's result used as it is, without the fallback
Or_Left(a, b) == a

\* a or b
Or(a, b) == IF Truthy(a) THEN a ELSE b

\* floss.identify.get_max_calls_to(vw): the corpus maximum, 0 or None
get_max_calls_to(w) == w.max_calls_to

\* CallsTo.score: float(self.value) / float(self.max_calls_to)
CallsTo_score(f) == Frac(f.value, f.max_calls_to.val)

\* feature.score(), dispatched on the instance's class
score(f) ==
    CASE f.name = "BlockCount"       -> BlockCount_score(f.value)
      [] f.name = "InstructionCount" -> InstructionCount_score(f.value)
      [] f.name = "Arguments"        -> Arguments_score(f.value)
      [] f.name = "CallsTo"          -> CallsTo_score(f)

\* the argument lists of n arguments
ArgLists == { [i \in 1..n |-> "arg"] : n \in 0..MaxCount }

\* BlockCount(block_count)
NewBlockCount ==
    /\ phase = "feature"
    /\ \E block_count \in 0..MaxCount : feature' = Feature("BlockCount", block_count)
    /\ scored' = NoScore
    /\ UNCHANGED <<fi, phase, max_calls_to, lookups, made>>
    /\ UNCHANGED <<monvars, scanvars, envvars, filtvars, idxvars>>

\* InstructionCount(instruction_count)
NewInstructionCount ==
    /\ phase = "feature"
    /\ \E instruction_count \in 0..MaxCount :
          feature' = Feature("InstructionCount", instruction_count)
    /\ scored' = NoScore
    /\ UNCHANGED <<fi, phase, max_calls_to, lookups, made>>
    /\ UNCHANGED <<monvars, scanvars, envvars, filtvars, idxvars>>

\* Arguments(args)
NewArguments ==
    /\ phase = "feature"
    /\ \E args \in ArgLists : feature' = Feature("Arguments", Len(args))
    /\ scored' = NoScore
    /\ UNCHANGED <<fi, phase, max_calls_to, lookups, made>>
    /\ UNCHANGED <<monvars, scanvars, envvars, filtvars, idxvars>>

\* the lists of n call-site locations
LocLists == { [i \in 1..n |-> "loc"] : n \in 0..MaxFanIn }

\* CallsTo(vw, locations): self.max_calls_to reads the class attribute, the
\* instance having none of its own yet; line 128 then sets the instance's
CallsTo_init(locations) ==
    /\ made < MaxInstances
    /\ made' = made + 1
    /\ IF ~Truthy(max_calls_to)
       THEN /\ feature' = [name |-> "CallsTo", value |-> Len(locations),
                           max_calls_to |-> Or(get_max_calls_to(vw), Num(1))]
            /\ lookups' = lookups + 1
       ELSE /\ feature' = [name |-> "CallsTo", value |-> Len(locations),
                           max_calls_to |-> max_calls_to]
            /\ UNCHANGED lookups
    /\ UNCHANGED max_calls_to

\* CallsTo(vw, locations)
NewCallsTo ==
    /\ phase = "feature"
    /\ \E locations \in LocLists : CallsTo_init(locations)
    /\ scored' = NoScore
    /\ UNCHANGED <<fi, phase>>
    /\ UNCHANGED <<monvars, scanvars, envvars, filtvars, idxvars>>

\* feature.score()
CallScore ==
    /\ phase = "feature"
    /\ feature # NoFeature
    /\ scored' = score(feature)
    /\ UNCHANGED <<fi, phase, feature, max_calls_to, lookups, made>>
    /\ UNCHANGED <<monvars, scanvars, envvars, filtvars, idxvars>>

----------------------------------------------------------------------------
(* Initial states and specifications *)

\* the state of extract_stackstrings at ph, before any hook
InitRun(ph) ==
    /\ fi = 1
    /\ phase = ph
    /\ init_sp \in StackBases
    /\ emu_sp = init_sp
    /\ ctxs = <<>>
    /\ mov_count = 0
    /\ steps = 0
    /\ movs_seen = 0
    /\ reads = 0
    /\ skips = 0
    /\ ev = NoEvent
    /\ ci = 0
    /\ s = NoItem
    /\ nitems = 0
    /\ seen = {}
    /\ out = <<>>
    /\ sev = NoScan
    /\ caps = <<>>
    /\ firsts = <<>>

InitPure ==
    /\ verdict = NoVerdict
    /\ feature = NoFeature
    /\ scored = NoScore
    /\ max_calls_to = None
    /\ lookups = 0
    /\ made = 0
    /\ index = {}
    /\ fni = 1
    /\ bbi = 1

\* extract_call_contexts, run for one function with any stack depth
InitMon ==
    /\ vw = [arch |-> "i386", frames |-> AllFrames, texts |-> {}]
    /\ bb_ends \in {{}, {32}}
    /\ selected_functions = <<16>>
    /\ budget = MonBudget
    /\ InitRun("emu")
    /\ text = <<>>
    /\ InitPure

NextMon == Hook \/ Return

SpecMon == InitMon /\ [][NextMon]_vars

\* extract_stackstrings for one candidate function
InitPipe ==
    /\ vw \in [arch : Archs, frames : {{8, 16}}, texts : {PipeTexts}]
    /\ bb_ends = {32}
    /\ selected_functions = <<16>>
    /\ budget = PipeBudget
    /\ InitRun("emu")
    /\ text = <<>>
    /\ InitPure

NextPipe == Hook \/ Return \/ ScanAscii \/ EndAscii \/ ScanUnicode \/ EndUnicode

SpecPipe == InitPipe /\ [][NextPipe]_vars

\* extract_stackstrings over a list of candidate functions
InitRuns ==
    /\ vw \in [arch : Archs, frames : {{8}}, texts : {RunTexts}]
    /\ bb_ends = {32}
    /\ selected_functions \in {<<16, 32>>, <<32, 16>>}
    /\ budget = RunBudget
    /\ InitRun("emu")
    /\ text = <<>>
    /\ InitPure

SpecRuns == InitRuns /\ [][NextPipe]_vars

\* extract_stackstrings for one function whose run is long enough for a block
\* of five moves and a call after it
InitFirst ==
    /\ vw = [arch |-> "i386", frames |-> {8}, texts |-> FirstTexts]
    /\ bb_ends = {32}
    /\ selected_functions = <<16>>
    /\ budget = FirstBudget
    /\ InitRun("emu")
    /\ text = <<>>
    /\ InitPure

SpecFirst == InitFirst /\ [][NextPipe]_vars

NoWorkspace == [arch |-> "i386", frames |-> {}, texts |-> {}]

\* the sequences over S of length 1..n
SeqsUpTo(S, n) == UNION { [1..k -> S] : k \in 1..n }

\* the scanner yields runs of printable characters: no newline among them
ScanTexts == SeqsUpTo(TextAlphabet, MaxTextLen)

\* the artifact filter, for every text the scanner can yield
InitFilter ==
    /\ vw = NoWorkspace
    /\ bb_ends = {}
    /\ selected_functions = <<>>
    /\ budget = 0
    /\ InitRun("filter")
    /\ text \in ScanTexts
    /\ InitPure

SpecFilter == InitFilter /\ [][FilterText]_vars

\* the feature scores, for every raw value
InitScore ==
    /\ vw = NoWorkspace
    /\ bb_ends = {}
    /\ selected_functions = <<>>
    /\ budget = 0
    /\ InitRun("feature")
    /\ text = <<>>
    /\ InitPure

NextScore == NewBlockCount \/ NewInstructionCount \/ NewArguments \/ CallScore

SpecScore == InitScore /\ [][NextScore]_vars

\* the corpus maximum get_max_calls_to finds: none, 0, or a fan-in
CorpusMaxima == {None} \cup { Num(n) : n \in 0..MaxFanIn }

\* the features of one analysis run, CallsTo among them
InitFeatures ==
    /\ vw \in [arch : {"i386"}, frames : {{}}, texts : {{}},
                max_calls_to : CorpusMaxima]
    /\ bb_ends = {}
    /\ selected_functions = <<>>
    /\ budget = 0
    /\ InitRun("feature")
    /\ text = <<>>
    /\ InitPure

NextFeatures == NextScore \/ NewCallsTo

SpecFeatures == InitFeatures /\ [][NextFeatures]_vars

\* the instruction lists of a basic block: none, one, two instructions
BlockShapes == { <<>>, <<16>>, <<32, 48>> }

\* f.basic_blocks, for the functions a workspace can hold
FunctionShapes == {<<>>} \cup SeqsUpTo(BlockShapes, MaxBlocks)

\* vw.getFunctions(), each function given by its basic blocks
Workspaces == {<<>>} \cup SeqsUpTo(FunctionShapes, MaxFuncs)

\* get_basic_block_end_index(vw), for every workspace
InitIndex ==
    /\ vw \in [arch : {"i386"}, frames : {{}}, texts : {{}}, functions : Workspaces]
    /\ bb_ends = {}
    /\ selected_functions = <<>>
    /\ budget = 0
    /\ InitRun("index")
    /\ text = <<>>
    /\ InitPure

NextIndex == IndexBlock \/ NextFunction \/ ReturnIndex

SpecIndex == InitIndex /\ [][NextIndex]_vars

----------------------------------------------------------------------------
(* Properties *)

\* the last hook appended exactly one capture to the list it found
Captured == /\ Len(ctxs) = Len(ev.cs) + 1
            /\ SubSeq(ctxs, 1, Len(ev.cs)) = ev.cs

\* the capture a hook at instruction va makes of the current frame
CaptureOf(va) ==
    [pc |-> va, sp |-> emu_sp, init_sp |-> init_sp,
     stack_memory |-> [va |-> emu_sp, size |-> init_sp - emu_sp]]

\* C1: a post-instruction hook appends a capture exactly when its endpc is in
\* the boundary index, at least 5 qualifying moves were seen since the previous
\* block end (this instruction counted) and the frame is within the ceiling;
\* a block of 4 moves gives none, an endpc outside the index gives none.
Thm_C1 ==
    ev.kind = "posthook" =>
        /\ Captured <=> (ev.atend /\ ev.movs >= 5 /\ init_sp - emu_sp <= 65536)
        /\ ~Captured => ctxs = ev.cs
        /\ (ev.atend /\ ev.movs = 4) => ctxs = ev.cs
        /\ ~ev.atend => ctxs = ev.cs

\* a block end after exactly 5 qualifying moves, captured
Wit_C1 ==
    /\ ev.kind = "posthook"
    /\ ev.atend
    /\ ev.movs = 5
    /\ Captured

\* C2: a capture attempted with init_sp - sp above 65536 appends nothing, reads
\* no memory, leaves the list as it was and the run going; one attempted with a
\* frame of 65536 or less appends the capture and reads its memory once.
Thm_C2 ==
    ev.tried =>
        IF init_sp - emu_sp > 65536
        THEN /\ ctxs = ev.cs
             /\ reads = ev.nreads
             /\ phase = "emu"
        ELSE /\ ctxs = Append(ev.cs, CaptureOf(ev.va))
             /\ reads = ev.nreads + 1

\* after a skipped capture, a later hook captures a frame of exactly 65536 bytes
Wit_C2 ==
    /\ skips > 0
    /\ ev.tried
    /\ init_sp - emu_sp = 65536
    /\ Captured

\* C3 (as claimed): every capture in the list has stack_bottom >= stack_top,
\* whatever stack counter the emulator reports.
CE_C3 == \A i \in DOMAIN ctxs : ctxs[i].init_sp >= ctxs[i].sp

\* C9: a call event calls extract_context whatever the mov-counter and the
\* index are: within the ceiling it appends exactly the capture (pc of the call
\* instruction, current sp, init_sp of the attachment), above it nothing; the
\* mov-counter is left as it was.
Thm_C9 ==
    ev.kind = "apicall" =>
        /\ ev.tried
        /\ mov_count = ev.mc
        /\ movs_seen = ev.movs
        /\ init_sp - emu_sp <= 65536 => ctxs = Append(ev.cs, CaptureOf(ev.va))
        /\ init_sp - emu_sp > 65536 => ctxs = ev.cs

\* a call captured with the mov-counter at 3 and an empty boundary index
Wit_C9 ==
    /\ ev.kind = "apicall"
    /\ bb_ends = {}
    /\ ev.mc = 3
    /\ mov_count = 3
    /\ Captured

----------------------------------------------------------------------------

hi == <<"h", "i">>

\* t matches p?V?A+ in full
IsArtifact(t) ==
    \E pre \in {<<>>, <<"p">>, <<"V">>, <<"p", "V">>} :
        \E m \in 1..Len(t) : t = pre \o [i \in 1..m |-> "A"]

HasPrefix(t, pre) == Len(t) >= Len(pre) /\ SubSeq(t, 1, Len(pre)) = pre

\* t without one leading "pVA" or "VA"
Stripped(t) ==
    IF HasPrefix(t, <<"p", "V", "A">>) THEN SubSeq(t, 4, Len(t))
    ELSE IF HasPrefix(t, <<"V", "A">>) THEN SubSeq(t, 3, Len(t))
    ELSE t

Unsupported == vw.arch \notin {"i386", "amd64"}

\* C4: no two records of one function carry the same text.
Thm_C4 ==
    \A i, j \in DOMAIN out :
        (i < j /\ out[i].fva = out[j].fva) => out[i].s # out[j].s

\* the second function's second capture holds "VAhi" as UTF-16, after "hi" was
\* yielded for both functions: it is dropped
Wit_C4 ==
    /\ phase = "unicode"
    /\ fi = 2
    /\ ci = 2
    /\ sev = [kind |-> "dup", mode |-> "unicode"]
    /\ s.s = <<"V", "A">> \o hi
    /\ Len(out) = 2
    /\ out[1].s = hi /\ out[1].fva = selected_functions[1]
    /\ out[2].s = hi /\ out[2].fva = selected_functions[2]

\* C5: a text matching p?V?A+ in full gives no record; any other text is
\* reported without one leading "pVA" or "VA", and unchanged if it has none.
Thm_C5 ==
    phase = "filtered" =>
        /\ verdict.skip <=> IsArtifact(text)
        /\ ~verdict.skip => verdict.s_stripped = Stripped(text)
        /\ text \in {<<"p","V","A","A">>, <<"A","A","A","A">>, <<"V","A">>}
              => verdict.skip
        /\ text = <<"p","V","A","h">>
              => ~verdict.skip /\ verdict.s_stripped = <<"h">>
        /\ (~verdict.skip /\ ~HasPrefix(text, <<"p","V","A">>)
                          /\ ~HasPrefix(text, <<"V","A">>))
              => verdict.s_stripped = text

\* "pVAh" is kept and reported as "h"
Wit_C5 ==
    /\ phase = "filtered"
    /\ text = <<"p","V","A","h">>
    /\ verdict = [skip |-> FALSE, s_stripped |-> <<"h">>]

\* C6: every record has frame_offset = (init_sp - sp) - offset - pointer_size,
\* with 4 on i386 and 8 on amd64, and the record just yielded carries the pc, sp
\* and init_sp of the context under scan and the offset of the scanner's item.
Thm_C6 ==
    /\ \A i \in DOMAIN out :
          LET r == out[i]
          IN  /\ vw.arch = "i386" =>
                    r.frame_offset = (r.init_sp - r.sp) - r.offset - 4
              /\ vw.arch = "amd64" =>
                    r.frame_offset = (r.init_sp - r.sp) - r.offset - 8
    /\ (phase \in {"ascii", "unicode"} /\ sev.kind = "yield") =>
          LET r == out[Len(out)]
          IN  /\ r.pc = ctxs[ci].pc
              /\ r.sp = ctxs[ci].sp
              /\ r.init_sp = ctxs[ci].init_sp
              /\ r.offset = s.offset

\* on amd64, a UTF-16 text at offset 4 of a 16-byte frame: frame_offset 4
Wit_C6 ==
    /\ phase = "unicode"
    /\ sev = [kind |-> "yield", mode |-> "unicode"]
    /\ vw.arch = "amd64"
    /\ s.offset = 4
    /\ ctxs[ci].init_sp - ctxs[ci].sp = 16
    /\ out[Len(out)].frame_offset = 4

\* C7 (as claimed): a failed pointer-size lookup ends the extraction of its
\* function only: it never leaves a later candidate without its run.
CE_C7 == phase = "raised" => fi = Len(selected_functions)

\* C8 (as claimed): on an architecture that is neither i386 nor amd64 no
\* record is yielded, and no function whose buffers were scanned gets to its
\* end without the failure, even when no text of it survives the filter.
CE_C8 ==
    Unsupported =>
        /\ out = <<>>
        /\ ~(phase = "done" /\ nitems > 0)

\* C8 (as amended): on such an architecture no record is yielded; the failure
\* is raised at the first scanned text that is not an artifact in full, and at
\* no other; it is raised on no other architecture.
Thm_C8 ==
    /\ Unsupported => out = <<>>
    /\ phase = "raised" => Unsupported /\ sev.kind = "raised"
    /\ (Unsupported /\ sev.kind # "none") =>
          /\ sev.kind = "raised" <=> ~IsArtifact(s.s)
          /\ sev.kind = "filtered" <=> IsArtifact(s.s)

\* an artifact was skipped, then the UTF-16 scan's first survivor raised
Wit_C8 ==
    /\ Unsupported
    /\ phase = "raised"
    /\ nitems = 2
    /\ sev = [kind |-> "raised", mode |-> "unicode"]
    /\ out = <<>>

----------------------------------------------------------------------------

\* the fractions a and b are the same number
SameScore(a, b) == a.den # 0 /\ b.den # 0 /\ a.num * b.den = b.num * a.den

\* C10: BlockCount scores 0.1 above 30, 1.0 in 3..10, 0.4 otherwise; Arguments
\* scores 1.0 for 1..4, 0.5 for 5..6, 0.0 otherwise; InstructionCount scores 0.8
\* above 10 and 0.1 otherwise.
Thm_C10 ==
    scored # NoScore =>
        LET v == feature.value
        IN  /\ feature.name = "BlockCount" =>
                /\ v >= 31 => SameScore(scored, [num |-> 1, den |-> 10])
                /\ v \in 3..10 => SameScore(scored, [num |-> 1, den |-> 1])
                /\ v \in (0..2) \cup (11..30) =>
                       SameScore(scored, [num |-> 4, den |-> 10])
            /\ feature.name = "Arguments" =>
                /\ v \in 1..4 => SameScore(scored, [num |-> 1, den |-> 1])
                /\ v \in 5..6 => SameScore(scored, [num |-> 1, den |-> 2])
                /\ (v = 0 \/ v >= 7) => SameScore(scored, [num |-> 0, den |-> 1])
            /\ feature.name = "InstructionCount" =>
                /\ v >= 11 => SameScore(scored, [num |-> 8, den |-> 10])
                /\ v <= 10 => SameScore(scored, [num |-> 1, den |-> 10])

\* BlockCount(31) scored 0.1
Wit_C10 ==
    /\ feature = [name |-> "BlockCount", value |-> 31]
    /\ SameScore(scored, [num |-> 1, den |-> 10])

----------------------------------------------------------------------------

\* the corpus maximum as the claim reads it: 1 when it is unavailable or zero
Normalizer == IF vw.max_calls_to.isNone \/ vw.max_calls_to.val = 0
              THEN 1
              ELSE vw.max_calls_to.val

\* C11: CallsTo.score() is (number of call-site locations) / (corpus maximum
\* fan-in); with a maximum of 5, fan-in 5 scores 1.0 and fan-in 0 scores 0.0;
\* with the maximum unavailable or zero the divisor is 1.0, and it is never 0.
Thm_C11 ==
    (feature.name = "CallsTo" /\ scored # NoScore) =>
        /\ scored.den # 0
        /\ SameScore(scored, [num |-> feature.value, den |-> Normalizer])
        /\ (vw.max_calls_to = Num(5) /\ feature.value = 5)
              => SameScore(scored, [num |-> 1, den |-> 1])
        /\ (vw.max_calls_to = Num(5) /\ feature.value = 0)
              => SameScore(scored, [num |-> 0, den |-> 1])
        /\ (vw.max_calls_to \in {None, Num(0)})
              => SameScore(scored, [num |-> feature.value, den |-> 1])

\* with no corpus maximum available, a function with 3 call sites is scored
\* with the divisor 1.0
Wit_C11 ==
    /\ vw.max_calls_to = None
    /\ feature.name = "CallsTo"
    /\ feature.value = 3
    /\ feature.max_calls_to = Num(1)
    /\ SameScore(scored, [num |-> 3, den |-> 1])

\* C12 (as claimed): for every feature variant and every raw value, score()
\* is a number in [0,1]; CallsTo.score() too, for every number of call-site
\* locations and every divisor the constructor selects.
CE_C12 ==
    scored # NoScore =>
        /\ scored.den > 0
        /\ 0 <= scored.num
        /\ scored.num <= scored.den

\* C17 (as claimed): over any sequence of CallsTo constructions of one run
\* the corpus maximum is looked up at most once; later instances reuse the
\* cached constant.
CE_C17 == lookups <= 1

----------------------------------------------------------------------------

\* the basic blocks of the workspace: function position, block position
AllBlocks == { p \in (1..MaxFuncs + 1) \X (1..MaxBlocks + 1) :
                 /\ p[1] <= Len(vw.functions)
                 /\ p[2] <= Len(vw.functions[p[1]]) }

\* the blocks the loops have been through
BlocksDone == { p \in AllBlocks : p[1] < fni \/ (p[1] = fni /\ p[2] < bbi) }

\* the addresses of the last instruction of the non-empty blocks among P
LastVas(P) ==
    { vw.functions[p[1]][p[2]][Len(vw.functions[p[1]][p[2]])] :
        p \in { q \in P : vw.functions[q[1]][q[2]] # <<>> } }

\* C13: get_basic_block_end_index returns exactly the addresses of the last
\* instruction of every non-empty basic block of every function; a block of
\* zero instructions adds nothing and raises nothing, and the blocks after it,
\* in its function and in later ones, are indexed all the same.
Thm_C13 ==
    /\ phase # "indexerror"
    /\ phase = "index" => index = LastVas(BlocksDone)
    /\ phase = "indexed" => index = LastVas(AllBlocks)

\* a function whose first block is empty and whose second ends at 48, then a
\* function with the one-instruction block 16: the index is {16, 48}
Wit_C13 ==
    /\ phase = "indexed"
    /\ vw.functions = << << <<>>, <<32, 48>> >>, << <<16>> >> >>
    /\ index = {16, 48}

----------------------------------------------------------------------------

\* C16: after every post-instruction hook whose endpc is in the boundary
\* index the mov-counter is 0, whether a capture was made, was skipped by the
\* ceiling or was not tried; the mov-counter is always within 0..5; a call
\* event, the only other event, leaves it as it found it.
Thm_C16 ==
    /\ mov_count \in 0..5
    /\ (ev.kind = "posthook" /\ ev.atend) => mov_count = 0
    /\ (ev.kind = "posthook" /\ ~ev.atend) => mov_count \in {ev.mc, ev.mc + 1}
    /\ ev.kind = "apicall" => mov_count = ev.mc

\* a block end found the counter at 5 and its capture was skipped by the
\* ceiling: the counter is 0
Wit_C16 ==
    /\ ev.kind = "posthook"
    /\ ev.atend
    /\ ev.mc = 5
    /\ ev.tried
    /\ init_sp - emu_sp > 65536
    /\ ctxs = ev.cs
    /\ mov_count = 0

----------------------------------------------------------------------------

\* C18 (as claimed): no record carries a text that is empty or that matches
\* p?V?A+ in full, whatever text was scanned ("VAVA" included).
CE_C18 ==
    \A i \in DOMAIN out :
        /\ out[i].s # <<>>
        /\ ~IsArtifact(out[i].s)

----------------------------------------------------------------------------

\* the function under emulation or scan
fva == selected_functions[fi]

\* the positions in out of the records of the function fva
Mine == { i \in DOMAIN out : out[i].fva = fva }

\* the k-th record of the function fva, k \in 1..Cardinality(Mine)
MineAt(k) ==
    out[CHOOSE i \in Mine : Cardinality({ j \in Mine : j <= i }) = k]

\* the k-th record of the function fva is for the k-th first occurrence
FirstsReported ==
    /\ Cardinality(Mine) = Len(firsts)
    /\ \A k \in DOMAIN firsts :
          /\ MineAt(k).s = firsts[k].s
          /\ MineAt(k).pc = firsts[k].pc
          /\ MineAt(k).sp = firsts[k].sp
          /\ MineAt(k).init_sp = firsts[k].init_sp
          /\ MineAt(k).offset = firsts[k].offset

\* C14: while the captures of a function are scanned, in capture order and
\* ASCII before UTF-16 within a capture, its records are, one for one and in
\* order, the first occurrences of the texts that passed the filter: each has
\* the pc, sp, init_sp and offset of the capture and item the text first came
\* up at; a later occurrence of the text adds no record.
Thm_C14 ==
    phase \in {"ascii", "unicode"} =>
        /\ FirstsReported
        /\ sev.kind = "dup" =>
              \E k \in DOMAIN firsts : firsts[k].s = Survivor(s.s).s_stripped
        /\ sev.kind = "yield" =>
              /\ firsts[Len(firsts)].s = Survivor(s.s).s_stripped
              /\ firsts[Len(firsts)].pc = ctxs[ci].pc
              /\ firsts[Len(firsts)].offset = s.offset

\* a block end after five moves and a later call both captured the frame;
\* "hi" was reported from the first capture and comes up again in the scan of
\* the second: the one record has the block-end capture's pc
Wit_C14 ==
    /\ phase = "ascii"
    /\ Len(caps) = 2
    /\ caps[1].hook = "posthook"
    /\ caps[2].hook = "apicall"
    /\ ctxs[1].pc # ctxs[2].pc
    /\ ci = 2
    /\ sev.kind = "dup"
    /\ s.s = <<"h", "i">>
    /\ Len(out) = 1
    /\ out[1].s = <<"h", "i">>
    /\ out[1].pc = ctxs[1].pc

----------------------------------------------------------------------------

\* the position of the function f in the candidate list
Pos(f) == CHOOSE k \in DOMAIN selected_functions : selected_functions[k] = f

\* C15: every candidate starts with a fresh monitor (mov-counter 0, no
\* capture, its own init_sp) and an empty seen-set; the captures under scan
\* are those of the function's own run and a record carries that function; a
\* text is reported for a function when it first comes up in its captures,
\* whether or not an earlier function reported it; the records follow the
\* order of the candidate list.
Thm_C15 ==
    /\ (phase = "emu" /\ steps = 0) =>
          /\ mov_count = 0
          /\ ctxs = <<>>
          /\ seen = {}
          /\ init_sp \in StackBases
          /\ emu_sp = init_sp
    /\ phase \in {"emu", "ascii", "unicode"} =>
          /\ Len(caps) = Len(ctxs)
          /\ \A k \in DOMAIN caps : caps[k].fva = fva
    /\ phase \in {"ascii", "unicode"} =>
          /\ FirstsReported
          /\ sev.kind = "yield" => out[Len(out)].fva = caps[ci].fva
    /\ \A i, j \in DOMAIN out :
          /\ \E k \in DOMAIN selected_functions :
                k <= fi /\ out[i].fva = selected_functions[k]
          /\ i < j => Pos(out[i].fva) <= Pos(out[j].fva)

\* "hi" was reported for the first candidate; the second candidate's capture
\* holds "VAhi", and "hi" is reported for it too, after the first one's record
Wit_C15 ==
    /\ phase \in {"ascii", "unicode"}
    /\ fi = 2
    /\ sev.kind = "yield"
    /\ s.s = <<"V", "A", "h", "i">>
    /\ Len(out) = 2
    /\ out[1] # out[2]
    /\ out[1].fva = selected_functions[1] /\ out[1].s = <<"h", "i">>
    /\ out[2].fva = selected_functions[2] /\ out[2].s = <<"h", "i">>

====
